---- MODULE Spec2Model ----
(***************************************************************************)
(* Model of the Hikvision IP camera driver                                 *)
(* (src/iot_driver_copilot/hikvision_ip_camera/driver.py): one live-stream *)
(* request, i.e. one worker running handle_live_stream, its RTSPClient     *)
(* (send_rtsp, recv_rtsp, start_stream, _find_track_id, proxy_rtp_stream)  *)
(* and the camera at the other end of the TCP connection (Spec).           *)
(*                                                                         *)
(* Parts of the driver are also modelled on their own, each with its own   *)
(* variables: _find_track_id (SpecTrack), recv_rtsp (SpecReader), the scan *)
(* of one chunk by proxy_rtp_stream (SpecScan) and requests served at the  *)
(* same time (SpecThreads). SpecScanner is the USB barcode scanner driver  *)
(* (src/iot_driver_copilot/usb_barcode_scanner/driver.py).                 *)
(*                                                                         *)
(* Bytes are naturals 0..255; text is a sequence of ASCII codes.           *)
(***************************************************************************)
EXTENDS Integers, Sequences, FiniteSets, TLC

VARIABLES
    pc,             \* where the worker is in handle_live_stream / start_stream
    cseq,           \* RTSPClient.cseq
    session,        \* RTSPClient.session (None until the SETUP response is read)
    buf,            \* recv_rtsp's local buf
    describe_rest,  \* start_stream's local describe_rest
    track_id,       \* start_stream's local track_id
    sockOpen,       \* the upstream socket of handle_live_stream is open
    outLog,         \* calls made on out_stream (self.wfile), in order
    wire,           \* bytes the camera has sent and the worker has not read yet
    peerClosed,     \* the camera has closed its end of the connection
    sent,           \* requests handed to sendall, in order
    srvStatus,      \* the status code of the camera's answer to each request
    srvBody,        \* the body of the camera's DESCRIBE answer
    srvSession,     \* the Session header value of the camera's SETUP answer
    srvFrames,      \* interleaved frames the camera has sent, in order
    frx,            \* number of interleaved-frame bytes the worker has read
    relayIn,        \* the bytes read by proxy_rtp_stream so far, in order
    relayReads,     \* non-empty reads of proxy_rtp_stream so far: 0, 1, or 2 for more
    eofOut,         \* Len(outLog) when proxy_rtp_stream read zero bytes, or -1
    sinkOpen        \* the HTTP client still reads out_stream

VARIABLES
    gonePasses,     \* passes of proxy_rtp_stream's loop begun and ended with the
                    \* HTTP client gone: 0, 1, or 2 for more
    hsEof           \* Len(sent) when recv_rtsp read zero bytes, or -1

vars == <<pc, cseq, session, buf, describe_rest, track_id, sockOpen, outLog,
          wire, peerClosed, sent, srvStatus, srvBody, srvSession, srvFrames,
          frx, relayIn, relayReads, eofOut, sinkOpen, gonePasses, hsEof>>

\* _find_track_id on its own
VARIABLES
    sdp_lines,      \* the lines the SDP body was composed of
    sdp_blob,       \* the argument of _find_track_id
    track_pc,       \* "off", "call" or "returned"
    track_out       \* the value _find_track_id returned

trackVars == <<sdp_lines, sdp_blob, track_pc, track_out>>

\* recv_rtsp on its own
VARIABLES
    rd_msg,         \* the answer the peer composed: status line, header lines,
                    \* whether the header terminator follows, bytes after it
    rd_wire,        \* bytes of the answer the reader has not read yet
    rd_buf,         \* recv_rtsp's local buf
    rd_reads,       \* non-empty reads made so far, up to ReadAttemptBound + 1
    rd_pc,          \* "off", "loop", "returned" or "raised"
    rd_out          \* what recv_rtsp returned

readerVars == <<rd_msg, rd_wire, rd_buf, rd_reads, rd_pc, rd_out>>

\* the scan of one chunk by proxy_rtp_stream on its own
VARIABLES
    sc_items,       \* what the chunk was composed of: stray bytes, frames, cut frames
    sc_data,        \* proxy_rtp_stream's local data
    sc_ptr,         \* proxy_rtp_stream's local ptr
    sc_out,         \* calls made on out_stream by the scan, in order
    sc_pc           \* "off", "scan" or "done"

scanVars == <<sc_items, sc_data, sc_ptr, sc_out, sc_pc>>

\* concurrent live-stream requests
VARIABLES
    t_pc,           \* where each worker thread is in handle_live_stream / start_stream
    t_track,        \* each worker's local track_id
    rtsp_clients,   \* the RTSPClient objects: cseq and session of each, None before
                    \* its __init__
    up_sent,        \* the requests sent on each worker's upstream connection, in order
    up_wire,        \* the answer not yet read on each upstream connection
    up_session      \* the Session value the camera gave in its SETUP answer on
                    \* each connection, None when none

threadVars == <<t_pc, t_track, rtsp_clients, up_sent, up_wire, up_session>>

\* the USB barcode scanner driver
VARIABLES
    barcode,        \* HIDReaderThread.run's local barcode
    last_barcode,   \* HIDReaderThread.last_barcode
    barcode_queue,  \* the module's barcode_queue, oldest first
    hid_pc,         \* the reader thread: "off", "read", or "put" between lines 92 and 93
    get_pc,         \* get_last_barcode: "off", "idle", or "empty" once get_nowait
                    \* has raised queue.Empty
    returned,       \* what the latest call of get_last_barcode returned
    typed,          \* the characters scanned since the last Enter or reopening
    scanned,        \* the barcodes completed by Enter, in scan order
    taken,          \* the barcodes get_nowait has returned, in order
    reports         \* HID reports with a mapped key read so far

scannerVars == <<barcode, last_barcode, barcode_queue, hid_pc, get_pc, returned,
                 typed, scanned, taken, reports>>

\* the variables of the other models of this module, which a live-stream
\* session leaves alone
apart == <<trackVars, readerVars, scanVars, threadVars, scannerVars>>

(***************************************************************************)
(* Bounds of the model.                                                    *)
(***************************************************************************)
\* interleaved frames the camera sends in one session
MaxFrames == 2
\* answers with a status other than 200 in one session
MaxRejects == 1

(***************************************************************************)
(* Byte strings of the program text.                                       *)
(***************************************************************************)
\* b"\r\n\r\n"
HeaderEnd == <<13, 10, 13, 10>>
\* "\r\n"
CRLF == <<13, 10>>
\* ':'
Colon == <<58>>
\* ";"
Semi == <<59>>
\* "/"
Slash == <<47>>
\* "Session"
SessionKey == <<83, 101, 115, 115, 105, 111, 110>>
\* "a=control:"
ControlPrefix == <<97, 61, 99, 111, 110, 116, 114, 111, 108, 58>>
\* "rtsp://"
RtspScheme == <<114, 116, 115, 112, 58, 47, 47>>
\* "trackID=1"
DefaultTrack == <<116, 114, 97, 99, 107, 73, 68, 61, 49>>
\* b"RTSP proxy error\n"
ProxyErrorMsg == <<82, 84, 83, 80, 32, 112, 114, 111, 120, 121, 32, 101, 114,
                   114, 111, 114, 10>>
\* 0x24, '$'
Marker == 36
\* the size passed to recv
RecvSize == 4096
\* Python's None, for self.session
None == <<-1>>

(***************************************************************************)
(* Python's str/bytes operations, on sequences of codes.                   *)
(***************************************************************************)
Min(S) == CHOOSE x \in S : \A y \in S : x <= y

Drop(s, n) == SubSeq(s, n + 1, Len(s))

Take(s, n) == SubSeq(s, 1, n)

StartsWith(s, p) == Len(s) >= Len(p) /\ Take(s, Len(p)) = p

\* s.find(p) + 1: the first position of p in s, 0 when p is not in s
Find(s, p) ==
    LET at == {i \in 1..(Len(s) - Len(p) + 1) : SubSeq(s, i, i + Len(p) - 1) = p}
    IN  IF at = {} THEN 0 ELSE Min(at)

\* p in s
Contains(s, p) == Find(s, p) # 0

\* s.split(sep, 1)
Split1(s, sep) ==
    LET i == Find(s, sep)
    IN  IF i = 0 THEN <<s>> ELSE <<Take(s, i - 1), Drop(s, i + Len(sep) - 1)>>

RECURSIVE Split(_, _)
\* s.split(sep)
Split(s, sep) ==
    LET i == Find(s, sep)
    IN  IF i = 0 THEN <<s>>
        ELSE <<Take(s, i - 1)>> \o Split(Drop(s, i + Len(sep) - 1), sep)

\* the ASCII characters str.strip() removes
Whitespace == {9, 10, 11, 12, 13, 28, 29, 30, 31, 32}

RECURSIVE LStrip(_)
LStrip(s) ==
    IF s # <<>> /\ s[1] \in Whitespace THEN LStrip(Tail(s)) ELSE s

RECURSIVE RStrip(_)
RStrip(s) ==
    IF s # <<>> /\ s[Len(s)] \in Whitespace THEN RStrip(Take(s, Len(s) - 1)) ELSE s

\* s.strip()
Strip(s) == RStrip(LStrip(s))

\* the ASCII line boundaries of str.splitlines()
LineBreaks == {10, 11, 12, 13, 28, 29, 30}

RECURSIVE SplitLines(_)
\* s.splitlines()
SplitLines(s) ==
    LET at == {i \in 1..Len(s) : s[i] \in LineBreaks}
    IN  IF s = <<>> THEN <<>>
        ELSE IF at = {} THEN <<s>>
        ELSE LET i == Min(at)
                 n == IF s[i] = 13 /\ i < Len(s) /\ s[i + 1] = 10 THEN 2 ELSE 1
             IN  <<Take(s, i - 1)>> \o SplitLines(Drop(s, i + n - 1))

\* bytes.decode() raises on a byte that is not ASCII (no multi-byte text here)
DecodeOk(b) == \A i \in 1..Len(b) : b[i] < 128

IsAscii(x) == x < 128

\* bytes.decode(errors="ignore")
DecodeIgnore(b) == SelectSeq(b, IsAscii)

RECURSIVE Concat(_)
\* b"".join(ss)
Concat(ss) == IF ss = <<>> THEN <<>> ELSE Head(ss) \o Concat(Tail(ss))


(***************************************************************************)
(* RTSPClient.recv_rtsp, after its read loop: the split of buf.            *)
(***************************************************************************)
HasColon(line) == Contains(line, Colon)

\* k.strip() of k, v = line.split(":", 1)
HeaderKey(line) == Strip(Split1(line, Colon)[1])

\* v.strip() of k, v = line.split(":", 1)
HeaderValue(line) == Strip(Split1(line, Colon)[2])

\* the dict built by the loop over lines[1:]: a later line overwrites an earlier one
ParseHeaders(lines) ==
    LET hl == SelectSeq(lines, HasColon)
        last(k) == CHOOSE i \in 1..Len(hl) :
                       /\ HeaderKey(hl[i]) = k
                       /\ \A j \in (i + 1)..Len(hl) : HeaderKey(hl[j]) # k
    IN  [k \in {HeaderKey(hl[i]) : i \in 1..Len(hl)} |-> HeaderValue(hl[last(k)])]

\* the header block: buf.split(b"\r\n\r\n", 1)[0]
HeaderBlock(b) == Split1(b, HeaderEnd)[1]

\* what recv_rtsp returns for a buf that holds the header terminator
ParseResponse(b) ==
    LET lines == Split(HeaderBlock(b), CRLF)
    IN  [status_line |-> lines[1],
         headers     |-> ParseHeaders(Tail(lines)),
         rest        |-> Split1(b, HeaderEnd)[2]]

\* headers.get(key, default)
DictGet(d, key, default) == IF key \in DOMAIN d THEN d[key] ELSE default

\* setup_headers.get("Session", "").split(";")[0]
SessionId(headers) == Split(DictGet(headers, SessionKey, <<>>), Semi)[1]

(***************************************************************************)
(* RTSPClient._find_track_id                                               *)
(***************************************************************************)
IsControlLine(line) == StartsWith(line, ControlPrefix)

\* _find_track_id without the return inside the loop: the last control line
\* decides
_find_track_id_last(blob) ==
    LET ctl == SelectSeq(SplitLines(DecodeIgnore(blob)), IsControlLine)
    IN  IF ctl = <<>> THEN DefaultTrack
        ELSE LET val == Drop(ctl[Len(ctl)], Len(ControlPrefix))
                 segs == Split(val, Slash)
             IN  IF StartsWith(val, RtspScheme) \/ StartsWith(val, Slash)
                 THEN segs[Len(segs)]
                 ELSE val

_find_track_id(blob) ==
    LET ctl == SelectSeq(SplitLines(DecodeIgnore(blob)), IsControlLine)
    IN  IF ctl = <<>> THEN DefaultTrack
        ELSE LET val == Drop(ctl[1], Len(ControlPrefix))
                 segs == Split(val, Slash)
             IN  IF StartsWith(val, RtspScheme) \/ StartsWith(val, Slash)
                 THEN segs[Len(segs)]
                 ELSE val

(***************************************************************************)
(* RTSPClient.send_rtsp: the request it formats, as its header fields.     *)
(***************************************************************************)
\* if self.session:
Truthy(s) == s # None /\ s # <<>>

\* the request written by sendall: the verb, the track appended to the URL,
\* the CSeq header, the Session header when there is one, the extra headers
Request(verb, track, extra, sess, n) ==
    [verb       |-> verb,
     track      |-> track,
     cseq       |-> n,
     hasSession |-> Truthy(sess),
     session    |-> IF Truthy(sess) THEN sess ELSE <<>>,
     extra      |-> extra]

\* send_rtsp without its last line
NextCSeqKept(n) == n

\* self.cseq += 1
NextCSeq(n) == n + 1

(***************************************************************************)
(* RTSPClient.proxy_rtp_stream: the scan of one chunk returned by recv.    *)
(* ptr counts from 0 as in the code; data[ptr] of the code is data[ptr+1]. *)
(***************************************************************************)
\* (data[ptr + 2] << 8) | data[ptr + 3]
FrameSize(data, ptr) == data[ptr + 3] * 256 + data[ptr + 4]

RECURSIVE ScanFromWithHeader(_, _)
\* the scan with payload = data[ptr : ptr + 4 + size]
ScanFromWithHeader(data, ptr) ==
    IF ptr >= Len(data) THEN <<>>
    ELSE IF data[ptr + 1] = Marker
    THEN IF ptr + 4 > Len(data) THEN <<>>
         ELSE IF ptr + 4 + FrameSize(data, ptr) > Len(data) THEN <<>>
         ELSE <<SubSeq(data, ptr + 1, ptr + 4 + FrameSize(data, ptr))>>
                  \o ScanFromWithHeader(data, ptr + 4 + FrameSize(data, ptr))
    ELSE ScanFromWithHeader(data, ptr + 1)

RECURSIVE ScanFrom(_, _)
\* the payloads written by the while loop started at ptr, in order
ScanFrom(data, ptr) ==
    IF ptr >= Len(data) THEN <<>>
    ELSE IF data[ptr + 1] = Marker
    THEN IF ptr + 4 > Len(data) THEN <<>>
         ELSE IF ptr + 4 + FrameSize(data, ptr) > Len(data) THEN <<>>
         ELSE <<SubSeq(data, ptr + 5, ptr + 4 + FrameSize(data, ptr))>>
                  \o ScanFrom(data, ptr + 4 + FrameSize(data, ptr))
    ELSE ScanFrom(data, ptr + 1)

\* out_stream.write(payload)
WriteOp(payload) == [op |-> "write", data |-> payload]

\* out_stream.flush()
FlushOp == [op |-> "flush", data |-> <<>>]

RECURSIVE Emit(_)
\* the calls on out_stream for the payloads found by one scan
Emit(payloads) ==
    IF payloads = <<>> THEN <<>>
    ELSE <<WriteOp(Head(payloads)), FlushOp>> \o Emit(Tail(payloads))

(***************************************************************************)
(* The camera: what it answers to a request and the frames it streams.     *)
(* Its bytes are what upstream_sock.recv returns.                          *)
(***************************************************************************)
RECURSIVE Decimal(_)
\* the decimal digits of n
Decimal(n) == IF n < 10 THEN <<48 + n>> ELSE Decimal(n \div 10) \o <<48 + (n % 10)>>

\* the status codes the camera answers with
StatusCodes == {200, 454}

IsOk(code) == code = 200

\* "RTSP/1.0 200 OK", "RTSP/1.0 454 No"
StatusLine(code) ==
    <<82, 84, 83, 80, 47, 49, 46, 48, 32>> \o Decimal(code) \o <<32>>
        \o (IF IsOk(code) THEN <<79, 75>> ELSE <<78, 111>>)

\* "CSeq: <n>"
CSeqLine(n) == <<67, 83, 101, 113, 58, 32>> \o Decimal(n)

\* "Content-Length: <n>"
ContentLengthLine(n) ==
    <<67, 111, 110, 116, 101, 110, 116, 45, 76, 101, 110, 103, 116, 104, 58, 32>>
        \o Decimal(n)

\* "Session: <value>"
SessionLine(value) == SessionKey \o <<58, 32>> \o value

\* the SDP bodies the camera describes itself with: "a=control:t3\r\n"
SdpBodies == {<<97, 61, 99, 111, 110, 116, 114, 111, 108, 58, 116, 51, 13, 10>>}

\* the Session header of a SETUP answer: none, or "ab12CD;timeout=60"
SessionValues ==
    {None, <<97, 98, 49, 50, 67, 68, 59, 116, 105, 109, 101, 111, 117, 116, 61, 54, 48>>}

\* the interleaved frames the camera streams: media "$B" and "C" on channel 0
\* (one payload holds the marker byte), RTCP "D" on channel 1
FrameChoices ==
    {[channel |-> 0, payload |-> <<36, 66>>],
     [channel |-> 0, payload |-> <<67>>],
     [channel |-> 1, payload |-> <<68>>]}

RECURSIVE Join(_, _)
\* sep.join(ss)
Join(ss, sep) ==
    IF Len(ss) <= 1 THEN Concat(ss) ELSE Head(ss) \o sep \o Join(Tail(ss), sep)

\* an answer on the wire: status line, header lines, terminator, body
Response(code, lines, body) == Join(<<StatusLine(code)>> \o lines, CRLF) \o HeaderEnd \o body

\* 0x24 | channel | length, big-endian 16-bit | payload
Encode(f) ==
    <<Marker, f.channel, Len(f.payload) \div 256, Len(f.payload) % 256>> \o f.payload

RECURSIVE EncodeAll(_)
EncodeAll(fs) == IF fs = <<>> THEN <<>> ELSE Encode(Head(fs)) \o EncodeAll(Tail(fs))

\* answers so far whose status is not 200
Rejects == Cardinality({i \in DOMAIN srvStatus : ~IsOk(srvStatus[i])})

\* the status codes the camera may answer the next request with
NextStatus == IF Rejects < MaxRejects THEN StatusCodes ELSE {200}

\* the answers the camera may give to a request: [code, body, sess]
CameraAnswers(verb) ==
    {a \in [code : NextStatus, body : SdpBodies \cup {<<>>}, sess : SessionValues] :
        /\ (a.body # <<>>) = (verb = "DESCRIBE" /\ IsOk(a.code))
        /\ (a.sess # None) => (verb = "SETUP" /\ IsOk(a.code))}

\* the bytes of answer a to the request numbered n
AnswerBytes(a, n) ==
    Response(a.code,
             <<CSeqLine(n)>>
                 \o (IF a.body # <<>> THEN <<ContentLengthLine(Len(a.body))>> ELSE <<>>)
                 \o (IF a.sess # None THEN <<SessionLine(a.sess)>> ELSE <<>>),
             a.body)

\* interleaved-frame bytes sent by the camera and not yet read
FrameBytesOnWire == Len(EncodeAll(srvFrames)) - frx

\* how many of the first n bytes of the wire are interleaved-frame bytes
FrameBytesIn(n) ==
    IF n > Len(wire) - FrameBytesOnWire THEN n - (Len(wire) - FrameBytesOnWire) ELSE 0

(***************************************************************************)
(* The state after RTSPClient.__init__ in handle_live_stream: the response *)
(* head is written, the upstream socket is connected.                      *)
(***************************************************************************)
client == <<pc, cseq, session, buf, describe_rest, track_id, sockOpen, outLog>>
camera == <<wire, peerClosed, srvStatus, srvBody, srvSession, srvFrames>>
relay == <<relayIn, relayReads, eofOut>>

SessionInit ==
    /\ pc = "start"
    /\ cseq = 1
    /\ session = None
    /\ buf = <<>>
    /\ describe_rest = <<>>
    /\ track_id = <<>>
    /\ sockOpen = TRUE
    /\ outLog = <<>>
    /\ wire = <<>>
    /\ peerClosed = FALSE
    /\ sent = <<>>
    /\ srvStatus = <<>>
    /\ srvBody = <<>>
    /\ srvSession = None
    /\ srvFrames = <<>>
    /\ frx = 0
    /\ relayIn = <<>>
    /\ relayReads = 0
    /\ eofOut = -1
    /\ sinkOpen = TRUE
    /\ gonePasses = 0
    /\ hsEof = -1

\* no call of _find_track_id on its own
TrackIdle ==
    /\ sdp_lines = <<>>
    /\ sdp_blob = <<>>
    /\ track_pc = "off"
    /\ track_out = None

\* no call of recv_rtsp on its own
ReaderIdle ==
    /\ rd_msg = None
    /\ rd_wire = <<>>
    /\ rd_buf = <<>>
    /\ rd_reads = 0
    /\ rd_pc = "off"
    /\ rd_out = None

\* no scan of a chunk on its own
ScanIdle ==
    /\ sc_items = <<>>
    /\ sc_data = <<>>
    /\ sc_ptr = 0
    /\ sc_out = <<>>
    /\ sc_pc = "off"

\* no concurrent live-stream requests
ThreadsIdle ==
    /\ t_pc = <<>>
    /\ t_track = <<>>
    /\ rtsp_clients = <<>>
    /\ up_sent = <<>>
    /\ up_wire = <<>>
    /\ up_session = <<>>

\* no barcode scanner driver
ScannerIdle ==
    /\ barcode = <<>>
    /\ last_barcode = <<>>
    /\ barcode_queue = <<>>
    /\ hid_pc = "off"
    /\ get_pc = "off"
    /\ returned = None
    /\ typed = <<>>
    /\ scanned = <<>>
    /\ taken = <<>>
    /\ reports = 0

Init ==
    /\ SessionInit
    /\ TrackIdle
    /\ ReaderIdle
    /\ ScanIdle
    /\ ThreadsIdle
    /\ ScannerIdle

(***************************************************************************)
(* Steps of the worker.                                                    *)
(***************************************************************************)
\* send_rtsp with self.session = sess: the request goes out, cseq is bumped,
\* and the camera, unless it has closed, puts its answer on the wire
SendRtsp(verb, track, extra, sess) ==
    /\ sent' = Append(sent, Request(verb, track, extra, sess, cseq))
    /\ cseq' = NextCSeq(cseq)
    /\ IF peerClosed
       THEN UNCHANGED <<wire, srvStatus, srvBody, srvSession>>
       ELSE \E a \in CameraAnswers(verb) :
               /\ wire' = wire \o AnswerBytes(a, cseq)
               /\ srvStatus' = Append(srvStatus, a.code)
               /\ srvBody' = IF verb = "DESCRIBE" THEN a.body ELSE srvBody
               /\ srvSession' = IF verb = "SETUP" THEN a.sess ELSE srvSession

\* the handler's except clause without the with statement around the socket
RaiseLeak ==
    /\ pc' = "done"
    /\ outLog' = IF sinkOpen THEN Append(outLog, WriteOp(ProxyErrorMsg)) ELSE outLog
    /\ UNCHANGED <<cseq, session, buf, describe_rest, track_id, sockOpen, camera,
                   sent, frx, relay, sinkOpen>>

\* an exception leaves start_stream: the with block closes the socket and the
\* handler writes its error line, ignoring a failure of that write
Raise ==
    /\ pc' = "done"
    /\ sockOpen' = FALSE
    /\ outLog' = IF sinkOpen THEN Append(outLog, WriteOp(ProxyErrorMsg)) ELSE outLog
    /\ UNCHANGED <<cseq, session, buf, describe_rest, track_id, camera, sent, frx,
                   relay, sinkOpen>>

\* recv_rtsp is in its read loop
Receiving == pc \in {"recv_options", "recv_describe", "recv_setup", "recv_play"}

\* line 124: send OPTIONS
Options ==
    /\ pc = "start"
    /\ SendRtsp("OPTIONS", <<>>, "", session)
    /\ pc' = "recv_options"
    /\ UNCHANGED <<session, buf, describe_rest, track_id, sockOpen, outLog,
                   peerClosed, srvFrames, frx, relay, sinkOpen>>
    /\ UNCHANGED <<gonePasses, hsEof, apart>>

\* one pass of recv_rtsp's loop with data to read: buf += chunk
RecvChunk ==
    /\ Receiving
    /\ ~Contains(buf, HeaderEnd)
    /\ wire # <<>>
    /\ \E n \in 1..Len(wire) :
          /\ n <= RecvSize
          /\ buf' = buf \o Take(wire, n)
          /\ wire' = Drop(wire, n)
          /\ frx' = frx + FrameBytesIn(n)
    /\ UNCHANGED <<pc, cseq, session, describe_rest, track_id, sockOpen, outLog,
                   peerClosed, srvStatus, srvBody, srvSession, srvFrames, sent,
                   relay, sinkOpen>>
    /\ UNCHANGED <<gonePasses, hsEof, apart>>

\* recv_rtsp without lines 109-110: the empty chunk is added to buf and the
\* loop goes on
RecvClosedIgnored ==
    /\ Receiving
    /\ ~Contains(buf, HeaderEnd)
    /\ wire = <<>>
    /\ peerClosed
    /\ hsEof' = Len(sent)
    /\ UNCHANGED <<client, camera, sent, frx, relay, sinkOpen, gonePasses, apart>>

\* one pass of recv_rtsp's loop at end of stream: recv returns b"", it raises
RecvClosed ==
    /\ Receiving
    /\ ~Contains(buf, HeaderEnd)
    /\ wire = <<>>
    /\ peerClosed
    /\ Raise
    /\ hsEof' = Len(sent)
    /\ UNCHANGED <<gonePasses, apart>>

\* start_stream without line 125: DESCRIBE goes out with the OPTIONS answer
\* still unread
DescribeUnread ==
    /\ pc = "recv_options"
    /\ SendRtsp("DESCRIBE", <<>>, "Accept: application/sdp", session)
    /\ pc' = "recv_describe"
    /\ UNCHANGED <<session, buf, describe_rest, track_id, sockOpen, outLog,
                   peerClosed, srvFrames, frx, relay, sinkOpen>>
    /\ UNCHANGED <<gonePasses, hsEof, apart>>

\* recv_rtsp returns the OPTIONS answer (line 125); line 127: send DESCRIBE
Describe ==
    /\ pc = "recv_options"
    /\ Contains(buf, HeaderEnd)
    /\ IF DecodeOk(HeaderBlock(buf))
       THEN /\ SendRtsp("DESCRIBE", <<>>, "Accept: application/sdp", session)
            /\ pc' = "recv_describe"
            /\ buf' = <<>>
            /\ UNCHANGED <<session, describe_rest, track_id, sockOpen, outLog,
                           peerClosed, srvFrames, frx, relay, sinkOpen>>
       ELSE Raise
    /\ UNCHANGED <<gonePasses, hsEof, apart>>

\* recv_rtsp returns the DESCRIBE answer (line 128); lines 130-134: resolve the
\* track from describe_rest and send SETUP
Setup ==
    /\ pc = "recv_describe"
    /\ Contains(buf, HeaderEnd)
    /\ IF DecodeOk(HeaderBlock(buf))
       THEN /\ describe_rest' = ParseResponse(buf).rest
            /\ track_id' = _find_track_id(ParseResponse(buf).rest)
            /\ SendRtsp("SETUP", _find_track_id(ParseResponse(buf).rest),
                        "Transport: RTP/AVP/TCP;unicast;interleaved=0-1", session)
            /\ pc' = "recv_setup"
            /\ buf' = <<>>
            /\ UNCHANGED <<session, sockOpen, outLog, peerClosed, srvFrames, frx,
                           relay, sinkOpen>>
       ELSE Raise
    /\ UNCHANGED <<gonePasses, hsEof, apart>>

\* recv_rtsp returns the SETUP answer (line 135); line 136 sets self.session;
\* line 138: send PLAY. describe_rest is not read after line 130 and is
\* dropped from the state here.
Play ==
    /\ pc = "recv_setup"
    /\ Contains(buf, HeaderEnd)
    /\ IF DecodeOk(HeaderBlock(buf))
       THEN /\ session' = SessionId(ParseResponse(buf).headers)
            /\ SendRtsp("PLAY", track_id, "", SessionId(ParseResponse(buf).headers))
            /\ pc' = "recv_play"
            /\ buf' = <<>>
            /\ describe_rest' = <<>>
            /\ UNCHANGED <<track_id, sockOpen, outLog, peerClosed, srvFrames, frx,
                           relay, sinkOpen>>
       ELSE Raise
    /\ UNCHANGED <<gonePasses, hsEof, apart>>

\* recv_rtsp returns the PLAY answer (line 139), its result is dropped; line 141
\* enters proxy_rtp_stream
StartRelay ==
    /\ pc = "recv_play"
    /\ Contains(buf, HeaderEnd)
    /\ IF DecodeOk(HeaderBlock(buf))
       THEN /\ pc' = "relay"
            /\ buf' = <<>>
            /\ UNCHANGED <<cseq, session, describe_rest, track_id, sockOpen, outLog,
                           camera, sent, frx, relay, sinkOpen>>
       ELSE Raise
    /\ UNCHANGED <<gonePasses, hsEof, apart>>

\* gonePasses after one more pass made with the HTTP client gone
PassGone == IF gonePasses < 2 THEN gonePasses + 1 ELSE gonePasses

\* one pass of proxy_rtp_stream's loop with nothing to read: select times out
\* (the socket is not in rlist) and the loop starts over
RelayIdle ==
    /\ pc = "relay"
    /\ wire = <<>>
    /\ ~peerClosed
    /\ gonePasses' = IF sinkOpen THEN gonePasses ELSE PassGone
    /\ UNCHANGED <<client, camera, sent, frx, relay, sinkOpen, hsEof, apart>>

\* one pass of proxy_rtp_stream's loop with data to read: scan the chunk and
\* write each payload found; a write to a sink that is gone raises, the except
\* clause breaks the loop, start_stream returns and the with block closes the
\* socket
RelayRead ==
    /\ pc = "relay"
    /\ wire # <<>>
    /\ \E n \in 1..Len(wire) :
          /\ n <= RecvSize
          /\ wire' = Drop(wire, n)
          /\ frx' = frx + FrameBytesIn(n)
          /\ relayIn' = relayIn \o Take(wire, n)
          /\ relayReads' = IF relayReads < 2 THEN relayReads + 1 ELSE relayReads
          /\ IF sinkOpen \/ ScanFrom(Take(wire, n), 0) = <<>>
             THEN /\ outLog' = outLog \o Emit(ScanFrom(Take(wire, n), 0))
                  /\ gonePasses' = IF sinkOpen THEN gonePasses ELSE PassGone
                  /\ UNCHANGED <<pc, sockOpen>>
             ELSE /\ pc' = "done"
                  /\ sockOpen' = FALSE
                  /\ UNCHANGED <<outLog, gonePasses>>
    /\ UNCHANGED <<cseq, session, buf, describe_rest, track_id, peerClosed,
                   srvStatus, srvBody, srvSession, srvFrames, sent, eofOut, sinkOpen>>
    /\ UNCHANGED <<hsEof, apart>>

\* the pass at end of stream without "if not data: break": nothing is scanned
\* and the loop goes on
RelayEofLoops ==
    /\ pc = "relay"
    /\ wire = <<>>
    /\ peerClosed
    /\ eofOut = -1
    /\ eofOut' = Len(outLog)
    /\ UNCHANGED <<client, camera, sent, frx, relayIn, relayReads, sinkOpen>>
    /\ UNCHANGED <<gonePasses, hsEof, apart>>

\* one pass of proxy_rtp_stream's loop at end of stream: recv returns b"", the
\* loop breaks, start_stream returns and the with block closes the socket
RelayEof ==
    /\ pc = "relay"
    /\ wire = <<>>
    /\ peerClosed
    /\ pc' = "done"
    /\ sockOpen' = FALSE
    /\ eofOut' = Len(outLog)
    /\ UNCHANGED <<cseq, session, buf, describe_rest, track_id, outLog, camera,
                   sent, frx, relayIn, relayReads, sinkOpen>>
    /\ UNCHANGED <<gonePasses, hsEof, apart>>

(***************************************************************************)
(* Steps of the camera and of the HTTP client.                             *)
(***************************************************************************)
\* the camera has answered all four requests with 200 and has issued a session
Playing ==
    /\ Len(srvStatus) = 4
    /\ \A i \in 1..4 : IsOk(srvStatus[i])
    /\ srvSession # None

\* the camera streams one more interleaved frame
CameraSendFrame ==
    /\ pc # "done"
    /\ ~peerClosed
    /\ Playing
    /\ Len(srvFrames) < MaxFrames
    /\ \E f \in FrameChoices :
          /\ wire' = wire \o Encode(f)
          /\ srvFrames' = Append(srvFrames, f)
    /\ UNCHANGED <<client, peerClosed, srvStatus, srvBody, srvSession, sent, frx,
                   relay, sinkOpen>>
    /\ UNCHANGED <<gonePasses, hsEof, apart>>

\* the camera closes the connection
CameraClose ==
    /\ pc # "done"
    /\ ~peerClosed
    /\ peerClosed' = TRUE
    /\ UNCHANGED <<client, wire, srvStatus, srvBody, srvSession, srvFrames, sent,
                   frx, relay, sinkOpen>>
    /\ UNCHANGED <<gonePasses, hsEof, apart>>

\* the camera dies in the middle of an answer: the connection closes with the
\* answer cut inside its header terminator
CameraAbort ==
    /\ Receiving
    /\ ~peerClosed
    /\ srvFrames = <<>>
    /\ Contains(wire, HeaderEnd)
    /\ wire' = Take(wire, Find(wire, HeaderEnd) + 1)
    /\ peerClosed' = TRUE
    /\ UNCHANGED <<client, srvStatus, srvBody, srvSession, srvFrames, sent,
                   frx, relay, sinkOpen>>
    /\ UNCHANGED <<gonePasses, hsEof, apart>>

\* the HTTP client goes away: writes to out_stream raise from now on
ClientDisconnect ==
    /\ pc # "done"
    /\ sinkOpen
    /\ sinkOpen' = FALSE
    /\ UNCHANGED <<client, camera, sent, frx, relay>>
    /\ UNCHANGED <<gonePasses, hsEof, apart>>

Next ==
    \/ Options
    \/ RecvChunk
    \/ RecvClosed
    \/ Describe
    \/ Setup
    \/ Play
    \/ StartRelay
    \/ RelayRead
    \/ RelayIdle
    \/ RelayEof
    \/ CameraSendFrame
    \/ CameraClose
    \/ CameraAbort
    \/ ClientDisconnect

Spec == Init /\ [][Next]_vars

(***************************************************************************)
(* Vocabulary of the properties.                                           *)
(***************************************************************************)
IsPrefix(p, s) == Len(p) <= Len(s) /\ Take(s, Len(p)) = p

IsWrite(e) == e.op = "write"

\* the arguments of the write calls made on out_stream, in order
Written == [i \in 1..Len(SelectSeq(outLog, IsWrite)) |-> SelectSeq(outLog, IsWrite)[i].data]

\* the payloads of the frames fs, in order
PayloadsOf(fs) == [i \in 1..Len(fs) |-> fs[i].payload]

\* the frames of fs that lie wholly within the first n bytes of EncodeAll(fs)
WholeFrames(fs, n) ==
    LET fit == {k \in 0..Len(fs) : Len(EncodeAll(Take(fs, k))) <= n}
    IN  Take(fs, CHOOSE k \in fit : \A j \in fit : j <= k)

\* the index of the request with this verb in sent, 0 when it was not sent
SentAt(verb) ==
    IF \E i \in DOMAIN sent : sent[i].verb = verb
    THEN CHOOSE i \in DOMAIN sent : sent[i].verb = verb
    ELSE 0

\* every answer of the camera so far had status 200
AllOk == \A i \in DOMAIN srvStatus : IsOk(srvStatus[i])

\* the chunk read by the pass of proxy_rtp_stream's loop taken in this step
ChunkRead == Drop(relayIn', Len(relayIn))

(***************************************************************************)
(* C1. The requests of a session carry CSeq 1, 2, 3, ... in send order,    *)
(* whatever the verb: the i-th request sent carries CSeq i, so no value is *)
(* used twice.                                                             *)
(***************************************************************************)
C1_CSeqCountsRequests == \A i \in DOMAIN sent : sent[i].cseq = i

\* all four verbs have been sent
C1_Witness ==
    /\ Len(sent) = 4
    /\ {sent[i].verb : i \in DOMAIN sent} = {"OPTIONS", "DESCRIBE", "SETUP", "PLAY"}

(***************************************************************************)
(* C2. For a well-formed stream of interleaved frames, however it is split *)
(* into reads, the payloads forwarded are those of the unsplit stream: once*)
(* the reads of the relay add up to a prefix of the frame stream, the      *)
(* payloads written are exactly those of the frames that lie wholly within *)
(* that prefix (a partial frame at the end of a read is kept, not dropped).*)
(***************************************************************************)
C2_SplitFramesForwarded ==
    (/\ sinkOpen
     /\ relayIn # <<>>
     /\ IsPrefix(relayIn, EncodeAll(srvFrames)))
        => Written = PayloadsOf(WholeFrames(srvFrames, Len(relayIn)))

(***************************************************************************)
(* C3. Every write of the relay to the output sink is the payload of a     *)
(* frame on channel 0: a frame on channel 1 never appears in the output.   *)
(***************************************************************************)
C3_OnlyMediaChannelForwarded ==
    relayIn # <<>> =>
        \A i \in DOMAIN Written :
            \E j \in DOMAIN srvFrames :
                srvFrames[j].channel = 0 /\ srvFrames[j].payload = Written[i]

(***************************************************************************)
(* C4. A read that holds complete, concatenated frames on channel 0 makes  *)
(* the relay write exactly their payloads, one write then one flush per    *)
(* frame, in frame order, and none of the framing bytes.                   *)
(***************************************************************************)
C4_CompleteFramesForwarded ==
    [][\A i, j \in DOMAIN srvFrames :
          (/\ pc = "relay"
           /\ sinkOpen
           /\ i <= j
           /\ \A k \in i..j : srvFrames[k].channel = 0
           /\ ChunkRead = EncodeAll(SubSeq(srvFrames, i, j)))
              => outLog' = outLog \o Emit(PayloadsOf(SubSeq(srvFrames, i, j)))]_vars

\* two frames on channel 0 arrived in one read and both payloads were written
C4_Witness ==
    /\ relayReads = 1
    /\ Len(srvFrames) = 2
    /\ \A k \in 1..2 : srvFrames[k].channel = 0
    /\ relayIn = EncodeAll(srvFrames)
    /\ outLog = Emit(PayloadsOf(srvFrames))

(***************************************************************************)
(* C5. A status other than 200 at any handshake step aborts initiation:    *)
(* once the camera has answered the i-th request with such a status, no    *)
(* further request is sent and the relay does not start.                   *)
(***************************************************************************)
C5_RejectAborts ==
    \A i \in DOMAIN srvStatus :
        ~IsOk(srvStatus[i]) => (Len(sent) <= i /\ pc # "relay" /\ relayReads = 0)

(***************************************************************************)
(* C6. If the SETUP answer (status 200) carries no Session header,         *)
(* initiation fails: no PLAY request is sent and the relay does not start. *)
(***************************************************************************)
C6_MissingSessionAborts ==
    (AllOk /\ Len(srvStatus) >= 3 /\ srvSession = None)
        => (SentAt("PLAY") = 0 /\ pc # "relay" /\ relayReads = 0)

(***************************************************************************)
(* C7. The session id is the part of the SETUP answer's Session header     *)
(* value before the first ';'. A request carries a Session header exactly  *)
(* when it is sent after the SETUP answer was read, and the header is then *)
(* that session id: OPTIONS, DESCRIBE and SETUP carry none, PLAY carries it.*)
(***************************************************************************)
C7_SessionHeaderAfterSetup ==
    AllOk =>
        \A i \in DOMAIN sent :
            /\ sent[i].hasSession <=> (sent[i].verb = "PLAY")
            /\ sent[i].hasSession =>
                  (srvSession # None /\ sent[i].session = Split1(srvSession, Semi)[1])

(***************************************************************************)
(* C8. A read of zero bytes in the relay ends the relay loop without an    *)
(* error: the worker is done, nothing more is written to the output sink   *)
(* and the upstream socket is closed.                                      *)
(***************************************************************************)
C8_EofEndsRelay ==
    eofOut >= 0 => (pc = "done" /\ ~sockOpen /\ Len(outLog) = eofOut)

\* the relay forwarded a payload and then read zero bytes
C8_Witness == eofOut >= 2 /\ pc = "done"

(***************************************************************************)
(* C9. Bytes read past the header terminator of the PLAY answer are handed *)
(* to the demultiplexer: in the relay, every interleaved-frame byte the    *)
(* worker has read off the socket is part of the relay's input.            *)
(***************************************************************************)
C9_TrailingBytesKept ==
    pc = "relay" => relayIn = Take(EncodeAll(srvFrames), frx)

(***************************************************************************)
(* C10. When SETUP is sent, the whole body of the DESCRIBE answer (as many *)
(* bytes as its Content-Length says) has been read into describe_rest, and *)
(* none of it is left to be read with the SETUP answer.                    *)
(***************************************************************************)
C10_DescribeBodyRead ==
    (AllOk /\ pc = "recv_setup") => describe_rest = srvBody


(***************************************************************************)
(* RTSPClient._find_track_id on its own: the SDP body is any sequence of   *)
(* at most MaxSdpLines lines of SdpLineChoices, each ended by the same     *)
(* line end.                                                               *)
(***************************************************************************)
\* lines of one SDP body
MaxSdpLines == 3

\* "m=video 0 RTP/AVP 96"
MediaLine == <<109, 61, 118, 105, 100, 101, 111, 32, 48, 32, 82, 84, 80, 47, 65, 86, 80, 32, 57, 54>>
\* "a=control:trackID=3"
ControlPlain == <<97, 61, 99, 111, 110, 116, 114, 111, 108, 58, 116, 114, 97, 99, 107, 73, 68, 61, 51>>
\* "a=control:rtsp://host/trackID=7"
ControlUrl == <<97, 61, 99, 111, 110, 116, 114, 111, 108, 58, 114, 116, 115, 112, 58, 47, 47, 104, 111, 115, 116, 47, 116, 114, 97, 99, 107, 73, 68, 61, 55>>
\* "a=control:/s/t2"
ControlPath == <<97, 61, 99, 111, 110, 116, 114, 111, 108, 58, 47, 115, 47, 116, 50>>
\* "a=control:x/y"
ControlRelative == <<97, 61, 99, 111, 110, 116, 114, 111, 108, 58, 120, 47, 121>>
\* " a=control:z"
ControlIndented == <<32, 97, 61, 99, 111, 110, 116, 114, 111, 108, 58, 122>>

SdpLineChoices ==
    {MediaLine, ControlPlain, ControlUrl, ControlPath, ControlRelative,
     ControlIndented}

\* "\r\n" and "\n"
LineEnds == {CRLF, <<10>>}

SeqsUpTo(S, n) == UNION {[1..k -> S] : k \in 0..n}

\* the body made of lines, each followed by end
Body(lines, end) == Concat([i \in 1..Len(lines) |-> lines[i] \o end])

\* everything but _find_track_id's own variables
exceptTrack == <<vars, readerVars, scanVars, threadVars, scannerVars>>

InitTrack ==
    /\ sdp_lines \in SeqsUpTo(SdpLineChoices, MaxSdpLines)
    /\ sdp_blob \in {Body(sdp_lines, e) : e \in LineEnds}
    /\ track_pc = "call"
    /\ track_out = None
    /\ SessionInit
    /\ ReaderIdle
    /\ ScanIdle
    /\ ThreadsIdle
    /\ ScannerIdle

\* track_id = self._find_track_id(describe_rest)
FindTrack ==
    /\ track_pc = "call"
    /\ track_out' = _find_track_id(sdp_blob)
    /\ track_pc' = "returned"
    /\ UNCHANGED <<sdp_lines, sdp_blob, exceptTrack>>

NextTrack == FindTrack

SpecTrack == InitTrack /\ [][NextTrack]_trackVars

\* the lines of the body that start with "a=control:"
ControlLines == SelectSeq(sdp_lines, LAMBDA l : StartsWith(l, ControlPrefix))

\* what follows the last '/' of v
AfterLastSlash(v) ==
    LET at == {i \in 1..Len(v) : v[i] = 47}
    IN  IF at = {} THEN v ELSE Drop(v, CHOOSE i \in at : \A j \in at : j <= i)

\* the selector the first control line of the body stands for
FirstControlSelector ==
    LET v == Drop(ControlLines[1], Len(ControlPrefix))
    IN  IF StartsWith(v, RtspScheme) \/ StartsWith(v, Slash)
        THEN AfterLastSlash(v)
        ELSE v

\* C11: the selector _find_track_id returns is the one of the first line of
\* the body that starts with "a=control:" (what follows the last '/' when the
\* value starts with "rtsp://" or "/", the value itself otherwise), whatever
\* control lines come after it; it is "trackID=1" when no line is a control
\* line; "a=control:trackID=3" gives "trackID=3" and
\* "a=control:rtsp://host/trackID=7" gives "trackID=7".
C11_FirstControlLineDecides ==
    track_pc = "returned" =>
       /\ ControlLines = <<>> => track_out = DefaultTrack
       /\ ControlLines # <<>> => track_out = FirstControlSelector
       /\ sdp_lines = <<ControlPlain>> => track_out = <<116, 114, 97, 99, 107, 73, 68, 61, 51>>
       /\ sdp_lines = <<ControlUrl>> => track_out = <<116, 114, 97, 99, 107, 73, 68, 61, 55>>

\* a body whose first control line is a URL and whose second is not
C11_Witness ==
    /\ track_pc = "returned"
    /\ Len(ControlLines) >= 2
    /\ ControlLines[1] = ControlUrl
    /\ ControlLines[2] = ControlPlain
    /\ track_out = <<116, 114, 97, 99, 107, 73, 68, 61, 55>>


(***************************************************************************)
(* The order of the handshake.                                             *)
(***************************************************************************)
HandshakeVerbs == <<"OPTIONS", "DESCRIBE", "SETUP", "PLAY">>

\* bytes of the camera's answers that the worker has not read yet
AnswerBytesOnWire == Len(wire) - FrameBytesOnWire

\* the body of the camera's latest answer
LatestBody == IF Len(srvStatus) = 2 THEN srvBody ELSE <<>>

\* the camera has answered every request and the worker has read the latest
\* answer up to the end of its header block
LatestAnswerRead ==
    /\ Len(srvStatus) = Len(sent)
    /\ AnswerBytesOnWire <= Len(LatestBody)

C13_DisconnectStopsRelay ==
    (AllOk /\ pc = "relay" /\ ~sinkOpen) => gonePasses <= 1


\* C14: the upstream socket is closed on every way out of the handler: after
\* a failed handshake, after an exception in the relay, after the normal end
\* of the relay; the handler never returns with the socket open.
C14_SocketClosedOnExit == pc = "done" => ~sockOpen

\* the handler has returned after a write of the relay raised
C14_Witness ==
    /\ pc = "done"
    /\ ~sockOpen
    /\ ~sinkOpen
    /\ Len(sent) = 4
    /\ relayReads >= 1
    /\ eofOut = -1

\* C15: when a read of recv_rtsp returns zero bytes before the header
\* terminator was found, in whichever answer of the handshake, the handler is
\* left at once: no further request is sent and the relay never starts.
C15_EofAbortsHandshake ==
    hsEof >= 0 =>
       /\ pc = "done"
       /\ ~sockOpen
       /\ Len(sent) = hsEof
       /\ relayIn = <<>>
       /\ relayReads = 0
       /\ eofOut = -1
       /\ gonePasses = 0
       /\ \A i \in DOMAIN outLog : outLog[i] = WriteOp(ProxyErrorMsg)

\* the camera closed while the worker was reading the DESCRIBE answer
C15_Witness ==
    /\ hsEof = 2
    /\ pc = "done"
    /\ buf # <<>>


(***************************************************************************)
(* RTSPClient.recv_rtsp on its own: the peer sends a status line, at most  *)
(* MaxHeaderLines header lines of HeaderLineChoices and, unless it never   *)
(* ends the header block, the terminator and some more bytes; every recv   *)
(* returns any non-empty prefix of what has not been read.                 *)
(***************************************************************************)
\* header lines of one answer
MaxHeaderLines == 2
\* reads without the header terminator that a reader with a limit would make
ReadAttemptBound == 2

\* "RTSP/1.0 200 OK"
StatusOk == <<82, 84, 83, 80, 47, 49, 46, 48, 32, 50, 48, 48, 32, 79, 75>>

\* header lines as sent, with the key and value they stand for:
\* "S: a", "S:b:c ", "D"
HeaderLineChoices ==
    {[text |-> <<83, 58, 32, 97>>, colon |-> TRUE, key |-> <<83>>, value |-> <<97>>],
     [text |-> <<83, 58, 98, 58, 99, 32>>, colon |-> TRUE, key |-> <<83>>, value |-> <<98, 58, 99>>],
     [text |-> <<68>>, colon |-> FALSE, key |-> <<>>, value |-> <<>>]}

\* bytes after the terminator: none, or bytes that hold the terminator again
\* ("\r\n\r\nx")
TailChoices == {<<>>, <<13, 10, 13, 10, 120>>}

\* the header block of answer m, as sent
HeadBytes(m) ==
    Join(<<m.status>> \o [i \in 1..Len(m.lines) |-> m.lines[i].text], CRLF)

\* all the bytes of answer m
StreamOf(m) == HeadBytes(m) \o (IF m.term THEN HeaderEnd \o m.tail ELSE <<>>)

\* everything but recv_rtsp's own variables
exceptReader == <<vars, trackVars, scanVars, threadVars, scannerVars>>

InitReader ==
    /\ rd_msg \in [status : {StatusOk},
                   lines  : SeqsUpTo(HeaderLineChoices, MaxHeaderLines),
                   term   : BOOLEAN,
                   tail   : TailChoices]
    /\ ~rd_msg.term => rd_msg.tail = <<>>
    /\ rd_wire = StreamOf(rd_msg)
    /\ rd_buf = <<>>
    /\ rd_reads = 0
    /\ rd_pc = "loop"
    /\ rd_out = None
    /\ SessionInit
    /\ TrackIdle
    /\ ScanIdle
    /\ ThreadsIdle
    /\ ScannerIdle

\* recv_rtsp with the loop condition b"\r\n\r\n" not in chunk
ReaderRecvChunkOnly ==
    /\ rd_pc = "loop"
    /\ rd_wire # <<>>
    /\ \E n \in 1..Len(rd_wire) :
          /\ n <= RecvSize
          /\ rd_buf' = rd_buf \o Take(rd_wire, n)
          /\ rd_wire' = Drop(rd_wire, n)
          /\ IF Contains(Take(rd_wire, n), HeaderEnd)
             THEN IF DecodeOk(HeaderBlock(rd_buf'))
                  THEN rd_pc' = "returned" /\ rd_out' = ParseResponse(rd_buf')
                  ELSE rd_pc' = "raised" /\ UNCHANGED rd_out
             ELSE UNCHANGED <<rd_pc, rd_out>>
    /\ rd_reads' = IF rd_reads <= ReadAttemptBound THEN rd_reads + 1 ELSE rd_reads
    /\ UNCHANGED <<rd_msg, exceptReader>>

\* one pass of recv_rtsp's loop with data to read (lines 107-111) and, when buf
\* now holds the terminator, the rest of recv_rtsp (lines 112-120)
ReaderRecv ==
    /\ rd_pc = "loop"
    /\ rd_wire # <<>>
    /\ \E n \in 1..Len(rd_wire) :
          /\ n <= RecvSize
          /\ rd_buf' = rd_buf \o Take(rd_wire, n)
          /\ rd_wire' = Drop(rd_wire, n)
          /\ IF Contains(rd_buf', HeaderEnd)
             THEN IF DecodeOk(HeaderBlock(rd_buf'))
                  THEN rd_pc' = "returned" /\ rd_out' = ParseResponse(rd_buf')
                  ELSE rd_pc' = "raised" /\ UNCHANGED rd_out
             ELSE UNCHANGED <<rd_pc, rd_out>>
    /\ rd_reads' = IF rd_reads <= ReadAttemptBound THEN rd_reads + 1 ELSE rd_reads
    /\ UNCHANGED <<rd_msg, exceptReader>>

\* one pass of recv_rtsp's loop after the peer closed: recv returns b"" and
\* recv_rtsp raises (lines 108-110)
ReaderEof ==
    /\ rd_pc = "loop"
    /\ rd_wire = <<>>
    /\ rd_pc' = "raised"
    /\ UNCHANGED <<rd_msg, rd_wire, rd_buf, rd_reads, rd_out, exceptReader>>

NextReader ==
    \/ ReaderRecv
    \/ ReaderEof

SpecReader == InitReader /\ [][NextReader]_readerVars


\* the header lines of the answer that hold a ':'
ColonLines == SelectSeq(rd_msg.lines, LAMBDA l : l.colon)

\* the mapping the header lines of the answer stand for: the value of the last
\* line with each key
HeadersSent ==
    [k \in {ColonLines[i].key : i \in 1..Len(ColonLines)} |->
        LET at == {i \in 1..Len(ColonLines) : ColonLines[i].key = k}
        IN  ColonLines[CHOOSE i \in at : \A j \in at : j <= i].value]

\* the number of bytes up to the end of the first header terminator
HeadLen == Len(HeadBytes(rd_msg)) + Len(HeaderEnd)

\* C16: reading one answer always ends: when the peer keeps delivering
\* non-empty reads that never hold the header terminator, the reader gives up
\* after a bounded number of reads, here ReadAttemptBound.
C16_ReadsBounded ==
    (rd_pc = "loop" /\ ~rd_msg.term) => rd_reads <= ReadAttemptBound

\* C17: what recv_rtsp returns does not depend on how the answer was cut into
\* reads, a cut inside the terminator included: whenever the bytes read hold
\* the terminator it has returned, with the status line as sent, the header
\* mapping the lines stand for (split on the first ':', value trimmed, lines
\* without ':' left out, the last value of a key kept), and as rest exactly
\* the bytes read after the first terminator.
C17_SplitIndependent ==
    /\ rd_buf \o rd_wire = (IF rd_pc = "off" THEN <<>> ELSE StreamOf(rd_msg))
    /\ (rd_pc = "loop" /\ rd_msg.term) => Len(rd_buf) < HeadLen
    /\ rd_pc = "returned" =>
          /\ rd_msg.term
          /\ Len(rd_buf) >= HeadLen
          /\ rd_out.status_line = rd_msg.status
          /\ rd_out.headers = HeadersSent
          /\ rd_out.rest = Drop(rd_buf, HeadLen)
    /\ rd_pc = "raised" => ~rd_msg.term

\* an answer with a repeated key, returned after two reads of which the second
\* went one byte past the terminator
C17_Witness ==
    /\ rd_pc = "returned"
    /\ Len(ColonLines) = 2
    /\ ColonLines[1].key = ColonLines[2].key
    /\ ColonLines[1].value # ColonLines[2].value
    /\ rd_reads = 2
    /\ Len(rd_out.rest) = 1


(***************************************************************************)
(* RTSPClient.proxy_rtp_stream, the scan of one chunk (lines 165-180) step *)
(* by step: the chunk is made of at most MaxScanItems items, each a stray  *)
(* byte, a whole frame or a frame cut short.                               *)
(***************************************************************************)
\* items of one chunk
MaxScanItems == 3

\* stray bytes: 0x00 and 0x80; whole frames; a frame cut after its channel byte
ScanItemChoices ==
    {[kind |-> "stray", bytes |-> <<0>>, payload |-> <<>>],
     [kind |-> "stray", bytes |-> <<128>>, payload |-> <<>>]}
    \cup {[kind |-> "frame", bytes |-> Encode(f), payload |-> f.payload] :
             f \in FrameChoices}
    \cup {[kind |-> "cut", bytes |-> <<Marker, 0>>, payload |-> <<>>]}

\* the bytes of the items its, in order
ItemBytes(its) == Concat([i \in 1..Len(its) |-> its[i].bytes])

\* everything but the scan's own variables
exceptScan == <<vars, trackVars, readerVars, threadVars, scannerVars>>

InitScan ==
    /\ sc_items \in SeqsUpTo(ScanItemChoices, MaxScanItems)
    /\ sc_data = ItemBytes(sc_items)
    /\ sc_ptr = 0
    /\ sc_out = <<>>
    /\ sc_pc = "scan"
    /\ SessionInit
    /\ TrackIdle
    /\ ReaderIdle
    /\ ThreadsIdle
    /\ ScannerIdle

\* the scan is at a byte of the chunk
AtByte == sc_pc = "scan" /\ sc_ptr < Len(sc_data)

\* the frame whose marker is at ptr lies wholly in the chunk
FrameFits == sc_ptr + 4 <= Len(sc_data) /\ sc_ptr + 4 + FrameSize(sc_data, sc_ptr) <= Len(sc_data)

\* lines 168-178: a whole frame at ptr is written, flushed and stepped over
ScanFrame ==
    /\ AtByte
    /\ sc_data[sc_ptr + 1] = Marker
    /\ FrameFits
    /\ sc_out' = sc_out \o Emit(<<SubSeq(sc_data, sc_ptr + 5, sc_ptr + 4 + FrameSize(sc_data, sc_ptr))>>)
    /\ sc_ptr' = sc_ptr + 4 + FrameSize(sc_data, sc_ptr)
    /\ UNCHANGED <<sc_items, sc_data, sc_pc, exceptScan>>

\* lines 169-170, 173-174: a frame that does not fit ends the scan
ScanBreak ==
    /\ AtByte
    /\ sc_data[sc_ptr + 1] = Marker
    /\ ~FrameFits
    /\ sc_pc' = "done"
    /\ UNCHANGED <<sc_items, sc_data, sc_ptr, sc_out, exceptScan>>

\* the scan with a break in its else branch
ScanSkipBreaks ==
    /\ AtByte
    /\ sc_data[sc_ptr + 1] # Marker
    /\ sc_pc' = "done"
    /\ UNCHANGED <<sc_items, sc_data, sc_ptr, sc_out, exceptScan>>

\* lines 179-180: any other byte is stepped over
ScanSkip ==
    /\ AtByte
    /\ sc_data[sc_ptr + 1] # Marker
    /\ sc_ptr' = sc_ptr + 1
    /\ UNCHANGED <<sc_items, sc_data, sc_out, sc_pc, exceptScan>>

\* line 166: the scan ends at the end of the chunk
ScanEnd ==
    /\ sc_pc = "scan"
    /\ sc_ptr >= Len(sc_data)
    /\ sc_pc' = "done"
    /\ UNCHANGED <<sc_items, sc_data, sc_ptr, sc_out, exceptScan>>

NextScan ==
    \/ ScanFrame
    \/ ScanBreak
    \/ ScanSkip
    \/ ScanEnd

SpecScan == InitScan /\ [][NextScan]_scanVars

\* the payloads of the whole frames among the items, in order
FramePayloads ==
    LET fs == SelectSeq(sc_items, LAMBDA it : it.kind = "frame")
    IN  [i \in 1..Len(fs) |-> fs[i].payload]

\* C18: a byte other than the marker at the place where a frame is expected is
\* stepped over: the scan moves on by exactly one byte, writes nothing for it
\* and does not end; the whole frames that follow it in the chunk are still
\* forwarded.
C18_StrayByteSkipped ==
    /\ [][(AtByte /\ sc_data[sc_ptr + 1] # Marker) =>
             (sc_ptr' = sc_ptr + 1 /\ sc_out' = sc_out /\ sc_pc' = "scan")]_scanVars
    /\ []((sc_pc = "done" /\ \A i \in DOMAIN sc_items : sc_items[i].kind # "cut") =>
             (sc_ptr = Len(sc_data) /\ sc_out = Emit(FramePayloads)))

\* a chunk of a stray byte, a frame, a stray byte and a frame, scanned to its end
C18_Witness ==
    /\ sc_pc = "done"
    /\ Len(sc_items) = 3
    /\ sc_items[1].kind = "stray"
    /\ sc_items[2].kind = "frame"
    /\ sc_items[3].kind = "frame"
    /\ sc_out = Emit(<<sc_items[2].payload, sc_items[3].payload>>)


(***************************************************************************)
(* Concurrent live-stream requests: ThreadedHTTPServer runs                *)
(* handle_live_stream in one thread per request, each with its own         *)
(* upstream connection and the RTSPClient it creates. A call of recv_rtsp  *)
(* is one step here; the camera answers 200 to every request.              *)
(***************************************************************************)
\* live-stream requests served at the same time
NumSessions == 2

Workers == 1..NumSessions

\* the Session value the camera gives on connection w: "S<w>;t"
SessionFor(w) == <<83, 48 + w, 59, 116>>

\* a module-level RTSPClient used by every request
ClientOfShared(w) == 1

\* line 66: the RTSPClient worker w uses is the one it created itself
ClientOf(w) == w

\* everything but the variables of the concurrent requests
exceptThreads == <<vars, trackVars, readerVars, scanVars, scannerVars>>

InitThreads ==
    /\ t_pc = [w \in Workers |-> "new"]
    /\ t_track = [w \in Workers |-> <<>>]
    /\ rtsp_clients = [c \in Workers |-> None]
    /\ up_sent = [w \in Workers |-> <<>>]
    /\ up_wire = [w \in Workers |-> <<>>]
    /\ up_session = [w \in Workers |-> None]
    /\ SessionInit
    /\ TrackIdle
    /\ ReaderIdle
    /\ ScanIdle
    /\ ScannerIdle

\* line 66, RTSPClient.__init__: cseq = 1, session = None
NewClient(w) ==
    /\ t_pc[w] = "new"
    /\ rtsp_clients' = [rtsp_clients EXCEPT ![ClientOf(w)] = [cseq |-> 1, session |-> None]]
    /\ t_pc' = [t_pc EXCEPT ![w] = "send_options"]
    /\ UNCHANGED <<t_track, up_sent, up_wire, up_session, exceptThreads>>

\* the verb a worker sends at each position, the extra header with it and the
\* position it then waits at
SendSteps ==
    {[at |-> "send_options", verb |-> "OPTIONS", extra |-> "", to |-> "recv_options"],
     [at |-> "send_describe", verb |-> "DESCRIBE", extra |-> "Accept: application/sdp",
      to |-> "recv_describe"],
     [at |-> "send_setup", verb |-> "SETUP",
      extra |-> "Transport: RTP/AVP/TCP;unicast;interleaved=0-1", to |-> "recv_setup"],
     [at |-> "send_play", verb |-> "PLAY", extra |-> "Range: npt=0.000-", to |-> "recv_play"]}

\* send_rtsp by worker w on its RTSPClient; the camera puts its answer on w's
\* connection, with or without a Session header when the verb is SETUP
WorkerSend(w) ==
    \E st \in SendSteps, a \in [code : {200}, body : SdpBodies \cup {<<>>},
                                sess : {None, SessionFor(w)}] :
       LET c == rtsp_clients[ClientOf(w)]
       IN  /\ t_pc[w] = st.at
           /\ (a.body # <<>>) = (st.verb = "DESCRIBE")
           /\ (a.sess # None) => st.verb = "SETUP"
           /\ up_sent' = [up_sent EXCEPT ![w] =
                 Append(@, Request(st.verb, IF st.verb = "SETUP" THEN t_track[w] ELSE <<>>,
                                   st.extra, c.session, c.cseq))]
           /\ rtsp_clients' = [rtsp_clients EXCEPT ![ClientOf(w)].cseq = NextCSeq(@)]
           /\ up_wire' = [up_wire EXCEPT ![w] = AnswerBytes(a, c.cseq)]
           /\ up_session' = IF st.verb = "SETUP"
                            THEN [up_session EXCEPT ![w] = a.sess]
                            ELSE up_session
           /\ t_pc' = [t_pc EXCEPT ![w] = st.to]
           /\ UNCHANGED <<t_track, exceptThreads>>

\* the position after each wait
AfterRecv ==
    [recv_options |-> "send_describe", recv_describe |-> "send_setup",
     recv_setup |-> "send_play", recv_play |-> "relay"]

\* recv_rtsp by worker w returns, and what start_stream does with the answer:
\* line 133 after DESCRIBE, line 136 after SETUP
WorkerRecv(w) ==
    /\ t_pc[w] \in DOMAIN AfterRecv
    /\ t_pc' = [t_pc EXCEPT ![w] = AfterRecv[t_pc[w]]]
    /\ up_wire' = [up_wire EXCEPT ![w] = <<>>]
    /\ t_track' = IF t_pc[w] = "recv_describe"
                  THEN [t_track EXCEPT ![w] = _find_track_id(ParseResponse(up_wire[w]).rest)]
                  ELSE t_track
    /\ rtsp_clients' = IF t_pc[w] = "recv_setup"
                       THEN [rtsp_clients EXCEPT ![ClientOf(w)].session =
                                SessionId(ParseResponse(up_wire[w]).headers)]
                       ELSE rtsp_clients
    /\ UNCHANGED <<up_sent, up_session, exceptThreads>>

NextThreads ==
    \/ \E w \in Workers : NewClient(w)
    \/ \E w \in Workers : WorkerSend(w)
    \/ \E w \in Workers : WorkerRecv(w)

SpecThreads == InitThreads /\ [][NextThreads]_threadVars

\* C19: live-stream requests served at the same time share no session state:
\* however the steps of the workers interleave, the requests on each
\* connection carry CSeq 1, 2, 3, ... and no session id but the one of the
\* SETUP answer given on that same connection.
C19_SessionsIsolated ==
    \A w \in Workers :
       \A i \in DOMAIN up_sent[w] :
          /\ up_sent[w][i].cseq = i
          /\ up_sent[w][i].hasSession =>
                /\ up_session[w] # None
                /\ up_sent[w][i].session = Split(up_session[w], Semi)[1]

\* both workers have sent PLAY, each with the session id of its own connection
C19_Witness ==
    /\ \A w \in Workers : Len(up_sent[w]) = 4 /\ up_sent[w][4].hasSession
    /\ up_sent[1][4].session = <<83, 49>>
    /\ up_sent[2][4].session = <<83, 50>>


(***************************************************************************)
(* The USB barcode scanner driver                                          *)
(* (src/iot_driver_copilot/usb_barcode_scanner/driver.py): the reader      *)
(* thread HIDReaderThread.run and get_last_barcode as called by the /scan  *)
(* handler. A barcode is the sequence of its characters; "" is <<>>.       *)
(***************************************************************************)
\* HID reports with a mapped key that the device delivers
MaxReports == 5

\* the keycode of Enter
EnterKey == 40

\* SCANCODE_MAP and SHIFTED_MAP, for the keycodes of the model
SCANCODE_MAP == (4 :> "a" @@ EnterKey :> "\n")

SHIFTED_MAP == (4 :> "A" @@ EnterKey :> "\n")

\* data[0] and data[2] of the reports the device delivers: no modifier, left
\* control, left shift; no key, 'a', Enter, a key outside the maps
Reports == [modifier : {0, 1, 2}, keycode : {0, 4, EnterKey, 57}]

\* modifier & 0x22
Shift(modifier) == (modifier \div 2) % 2 = 1 \/ (modifier \div 32) % 2 = 1

\* SHIFTED_MAP[keycode] if shift else SCANCODE_MAP[keycode]
CharOf(r) == IF Shift(r.modifier) THEN SHIFTED_MAP[r.keycode] ELSE SCANCODE_MAP[r.keycode]

\* everything but the variables of the barcode scanner driver
exceptScanner == <<vars, trackVars, readerVars, scanVars, threadVars>>

\* the module is imported and the device has been opened: lines 58-62, 82, 107
InitScanner ==
    /\ barcode = <<>>
    /\ last_barcode = <<>>
    /\ barcode_queue = <<>>
    /\ hid_pc = "read"
    /\ get_pc = "idle"
    /\ returned = None
    /\ typed = <<>>
    /\ scanned = <<>>
    /\ taken = <<>>
    /\ reports = 0
    /\ SessionInit
    /\ TrackIdle
    /\ ReaderIdle
    /\ ScanIdle
    /\ ThreadsIdle

\* lines 84-89: a report with keycode 0 or a keycode outside SCANCODE_MAP
ReportIgnored ==
    /\ hid_pc = "read"
    /\ \E r \in Reports : r.keycode = 0 \/ r.keycode \notin DOMAIN SCANCODE_MAP
    /\ UNCHANGED <<scannerVars, exceptScanner>>

\* lines 90-96: a character other than '\n' is added to barcode
ReportChar ==
    /\ hid_pc = "read"
    /\ reports < MaxReports
    /\ \E r \in Reports :
          /\ r.keycode # 0
          /\ r.keycode \in DOMAIN SCANCODE_MAP
          /\ CharOf(r) # "\n"
          /\ barcode' = Append(barcode, CharOf(r))
          /\ typed' = Append(typed, CharOf(r))
    /\ reports' = reports + 1
    /\ UNCHANGED <<last_barcode, barcode_queue, hid_pc, get_pc, returned, scanned,
                   taken, exceptScanner>>

\* lines 90-92: Enter, self.last_barcode = barcode
ReportEnter ==
    /\ hid_pc = "read"
    /\ reports < MaxReports
    /\ \E r \in Reports :
          /\ r.keycode # 0
          /\ r.keycode \in DOMAIN SCANCODE_MAP
          /\ CharOf(r) = "\n"
    /\ last_barcode' = barcode
    /\ scanned' = Append(scanned, typed)
    /\ typed' = <<>>
    /\ hid_pc' = "put"
    /\ reports' = reports + 1
    /\ UNCHANGED <<barcode, barcode_queue, get_pc, returned, taken, exceptScanner>>

\* lines 93-94: self.barcode_queue.put(barcode); barcode = ""
PutBarcode ==
    /\ hid_pc = "put"
    /\ barcode_queue' = Append(barcode_queue, barcode)
    /\ barcode' = <<>>
    /\ hid_pc' = "read"
    /\ UNCHANGED <<last_barcode, get_pc, returned, typed, scanned, taken, reports,
                   exceptScanner>>

\* lines 98-99, 66-82: h.read raises, the device is opened again, barcode = ""
DeviceError ==
    /\ hid_pc = "read"
    /\ barcode' = <<>>
    /\ typed' = <<>>
    /\ UNCHANGED <<last_barcode, barcode_queue, hid_pc, get_pc, returned, scanned,
                   taken, reports, exceptScanner>>

\* get_last_barcode returning the head of the queue without taking it off
GetNowaitPeek ==
    /\ get_pc = "idle"
    /\ barcode_queue # <<>>
    /\ returned' = Head(barcode_queue)
    /\ taken' = Append(taken, Head(barcode_queue))
    /\ UNCHANGED <<barcode, last_barcode, barcode_queue, hid_pc, get_pc, typed,
                   scanned, reports, exceptScanner>>

\* line 103: get_nowait returns the oldest barcode of the queue
GetNowait ==
    /\ get_pc = "idle"
    /\ barcode_queue # <<>>
    /\ returned' = Head(barcode_queue)
    /\ barcode_queue' = Tail(barcode_queue)
    /\ taken' = Append(taken, Head(barcode_queue))
    /\ UNCHANGED <<barcode, last_barcode, hid_pc, get_pc, typed, scanned, reports,
                   exceptScanner>>

\* line 103: get_nowait raises queue.Empty
GetEmpty ==
    /\ get_pc = "idle"
    /\ barcode_queue = <<>>
    /\ get_pc' = "empty"
    /\ UNCHANGED <<barcode, last_barcode, barcode_queue, hid_pc, returned, typed,
                   scanned, taken, reports, exceptScanner>>

\* lines 104-105: return self.last_barcode
ReturnLast ==
    /\ get_pc = "empty"
    /\ returned' = last_barcode
    /\ get_pc' = "idle"
    /\ UNCHANGED <<barcode, last_barcode, barcode_queue, hid_pc, typed, scanned,
                   taken, reports, exceptScanner>>

NextScanner ==
    \/ ReportIgnored
    \/ ReportChar
    \/ ReportEnter
    \/ PutBarcode
    \/ DeviceError
    \/ GetNowait
    \/ GetEmpty
    \/ ReturnLast

SpecScanner == InitScanner /\ [][NextScanner]_scannerVars

\* the barcode completed last, "" when there is none
LastScanned == IF scanned = <<>> THEN <<>> ELSE scanned[Len(scanned)]

\* the barcode whose Enter was read and which is not on the queue yet
Pending == IF hid_pc = "put" THEN <<LastScanned>> ELSE <<>>

\* C20: every barcode completed by Enter is put on the queue once, in scan
\* order; get_last_barcode returns and removes the oldest barcode of a queue
\* that is not empty, so barcodes leave in the order they were scanned; with
\* the queue empty it returns the barcode completed last ("" when there is
\* none) and changes nothing.
C20_QueueThenLast ==
    /\ [](taken \o barcode_queue \o Pending = scanned)
    /\ [][taken' # taken =>
             /\ barcode_queue # <<>>
             /\ returned' = Head(barcode_queue)
             /\ barcode_queue' = Tail(barcode_queue)]_scannerVars
    /\ [][(get_pc = "idle" /\ get_pc' = "empty") => barcode_queue = <<>>]_scannerVars
    /\ [][(get_pc = "empty" /\ get_pc' = "idle") =>
             /\ returned' = LastScanned
             /\ UNCHANGED <<barcode_queue, last_barcode, scanned, taken>>]_scannerVars

\* two barcodes were scanned; the first was taken off the queue, the second was
\* returned from last_barcode while the queue was empty and is on the queue now
C20_Witness ==
    /\ Len(scanned) = 2
    /\ scanned[1] # scanned[2]
    /\ taken = <<scanned[1]>>
    /\ barcode_queue = <<scanned[2]>>
    /\ returned = scanned[2]
    /\ get_pc = "idle"

====
